---- MODULE Spec2Model ----
(***************************************************************************)
(* The threaded-comment server of src/src/server.ts: the comment store     *)
(* (prisma.comment), the four socket handlers (comment, updateComment,     *)
(* likeComment, deleteComment) and the REST routes that write the store    *)
(* (POST, PUT and DELETE /comments).                                       *)
(*                                                                         *)
(* Every store call (one await on a prisma.comment method) is one atomic   *)
(* step; the synchronous code that follows its result belongs to it.       *)
(* A handler with several store calls (likeComment, deleteComment) keeps   *)
(* its local variables in a slot between its steps, and any other step may *)
(* be taken in between.  The sockets connected, and what io.emit hands to  *)
(* each of them, are followed where a claim is about who receives an       *)
(* event.                                                                  *)
(***************************************************************************)
EXTENDS Integers, Sequences, FiniteSets, TLC

VARIABLES store,    \* prisma.comment: id -> record, for the ids that exist
          nextId,   \* the next id the store assigns (ids are never reused)
          slots,    \* the handlers suspended between two store calls
          emitted,  \* the events io.emit broadcast in the last step
          last,     \* what the last step was and how it ended
          connected,  \* the sessions (sockets) connected
          owner,      \* the session whose message started the handler in a slot
          requester,  \* the session whose handler took the last step
          inbox       \* the events each session received in the last step

hub == <<connected, owner, requester, inbox>>

vars == <<store, nextId, slots, emitted, last, connected, owner, requester, inbox>>

-----------------------------------------------------------------------------
(* Bounds *)

MaxId == 3         \* ids the store can assign
MaxInflight == 2   \* handlers suspended at the same time
MaxFlat == 2       \* ids the store assigns where every comment is top-level
MaxSessions == 2   \* sessions that can connect
MaxShared == 1     \* ids the store assigns where the sessions are followed

Ids == 1..MaxId
Slots == 1..MaxInflight
Sessions == 1..MaxSessions
NoSession == 0
\* The slot of the deleteComment handler, where one at a time is followed.
CascadeSlots == {1}
\* A recursion deeper than this is not followed; in a forest the depth of
\* deleteCommentRecursively's call stack never exceeds the number of ids.
MaxDepth == MaxId + 1

\* Payload values: a string field is empty or not; parentId 0 is null (any
\* falsy parentId becomes null, server.ts:80 and :182).
Strings == {"", "a"}
NoParent == 0
ParentIds == {NoParent} \cup Ids

-----------------------------------------------------------------------------
(* The comment store *)

\* Column defaults of the Comment model, applied by the store when create
\* does not give the field.
DefaultLikes == 0
DefaultEdited == FALSE

\* The likes POST /comments writes explicitly.
PostLikes == 0

Exists(st, id) == id \in DOMAIN st

Remove(st, id) == [i \in DOMAIN st \ {id} |-> st[i]]

Put(st, id, rec) == [i \in DOMAIN st \cup {id} |-> IF i = id THEN rec ELSE st[i]]

\* The record as the store returns it (with its id).
Row(st, id) == [id |-> id, nickname |-> st[id].nickname, text |-> st[id].text,
                parentId |-> st[id].parentId, edited |-> st[id].edited,
                likes |-> st[id].likes]

RECURSIVE SortedSeq(_)
SortedSeq(S) ==
  IF S = {} THEN <<>>
  ELSE LET m == CHOOSE x \in S : \A y \in S : x <= y
       IN  <<m>> \o SortedSeq(S \ {m})

\* findMany({where: {parentId: id}}): the ids of the children, in store order.
FindChildren(st, id) == SortedSeq({c \in DOMAIN st : st[c].parentId = id})

-----------------------------------------------------------------------------
(* The store calls, as the handlers use them *)

Event(type, payload) == [type |-> type, payload |-> payload]

\* The fields of data replace those of the record; a field the data does not
\* hold (undefined in the payload) is left as it is.
Merge(old, data) == [f \in DOMAIN old |-> IF f \in DOMAIN data THEN data[f] ELSE old[f]]

\* An update that creates the record it does not find (an upsert).
PrismaUpsert(st, id, data) ==
  [ok |-> TRUE,
   store |-> Put(st, id, IF Exists(st, id) THEN Merge(st[id], data)
                         ELSE Merge([nickname |-> "", text |-> "", parentId |-> NoParent,
                                     edited |-> DefaultEdited, likes |-> DefaultLikes],
                                    data))]

\* prisma.comment.update({where: {id}, data}): throws when no record has the id.
PrismaUpdate(st, id, data) ==
  IF Exists(st, id)
  THEN [ok |-> TRUE, store |-> Put(st, id, Merge(st[id], data))]
  ELSE [ok |-> FALSE, store |-> st]

\* prisma.comment.updateMany({where: {id}, data}): the count of records updated.
PrismaUpdateMany(st, id, data) ==
  IF Exists(st, id)
  THEN [count |-> 1, store |-> Put(st, id, Merge(st[id], data))]
  ELSE [count |-> 0, store |-> st]

\* A delete that, like deleteMany, reports no missing record.
PrismaDeleteQuiet(st, id) == [ok |-> TRUE, store |-> Remove(st, id)]

\* prisma.comment.delete({where: {id}}): throws when no record has the id.
PrismaDelete(st, id) ==
  IF Exists(st, id)
  THEN [ok |-> TRUE, store |-> Remove(st, id)]
  ELSE [ok |-> FALSE, store |-> st]

\* prisma.comment.deleteMany({where: {id}}): the count of records deleted.
PrismaDeleteMany(st, id) ==
  IF Exists(st, id)
  THEN [count |-> 1, store |-> Remove(st, id)]
  ELSE [count |-> 0, store |-> st]

-----------------------------------------------------------------------------
(* What the handlers compute *)

\* socket "comment": the data of the create call.
CommentData(nickname, text, parentId) ==
  [nickname |-> nickname, text |-> text, parentId |-> parentId,
   edited |-> DefaultEdited, likes |-> DefaultLikes]

\* POST /comments: the request is rejected when nickname or text is falsy.
PostValid(nickname, text) == nickname # "" /\ text # ""

\* A create that starts a comment with a like.
PostDataLiked(nickname, text, parentId) ==
  [nickname |-> nickname, text |-> text, parentId |-> parentId,
   edited |-> DefaultEdited, likes |-> PostLikes + 1]

\* POST /comments: the data of the create call.
PostData(nickname, text, parentId) ==
  [nickname |-> nickname, text |-> text, parentId |-> parentId,
   edited |-> DefaultEdited, likes |-> PostLikes]

\* socket "updateComment": the data of the update call; edited is the
\* payload's value, and is not written when the payload has none.
UpdateData(nickname, text, hasEdited, edited) ==
  IF hasEdited
  THEN [nickname |-> nickname, text |-> text, edited |-> edited]
  ELSE [nickname |-> nickname, text |-> text]

\* PUT /comments: the data of the updateMany call.
PutData(text) == [text |-> text, edited |-> TRUE]

\* A toggle that always takes a like away.
UpdatedLikesDown(likes) == likes - 1

\* A toggle that goes back from 2, not from 1.
UpdatedLikesLate(likes) == IF likes > 1 THEN likes - 1 ELSE likes + 1

\* socket "likeComment": the toggle.
UpdatedLikes(likes) == IF likes > 0 THEN likes - 1 ELSE likes + 1

\* A likes update that toggles the likes the record holds when it arrives,
\* not the likes the handler had read.
LikeUpdateFresh(st, id, likes) ==
  PrismaUpdate(st, id, [likes |-> IF Exists(st, id) THEN UpdatedLikes(st[id].likes)
                                  ELSE likes])

\* A likes update that creates the record it does not find.
LikeUpsert(st, id, likes) == PrismaUpsert(st, id, [likes |-> likes])

\* socket "likeComment": the update call that writes the toggled likes.
LikeUpdate(st, id, likes) == PrismaUpdate(st, id, [likes |-> likes])

\* deleteCommentRecursively, after findMany returned for the top frame: the
\* loop calls itself for the first child, or, without children, goes on to
\* delete the frame's own id.
Frame(id, todo, pc) == [id |-> id, todo |-> todo, pc |-> pc]

Top(stack) == stack[Len(stack)]

Pop(stack) == SubSeq(stack, 1, Len(stack) - 1)

\* A loop that calls itself for the id it is looping for, not for the child.
AfterFindOwnId(stack, children) ==
  IF children = <<>>
  THEN Pop(stack) \o <<Frame(Top(stack).id, <<>>, "delete")>>
  ELSE Pop(stack) \o <<Frame(Top(stack).id, Tail(children), "loop"),
                       Frame(Top(stack).id, <<>>, "find")>>

\* A loop that calls itself for the first child only.
AfterFindFirstChild(stack, children) ==
  IF children = <<>>
  THEN Pop(stack) \o <<Frame(Top(stack).id, <<>>, "delete")>>
  ELSE Pop(stack) \o <<Frame(Top(stack).id, <<>>, "loop"),
                       Frame(Head(children), <<>>, "find")>>

AfterFind(stack, children) ==
  IF children = <<>>
  THEN Pop(stack) \o <<Frame(Top(stack).id, <<>>, "delete")>>
  ELSE Pop(stack) \o <<Frame(Top(stack).id, Tail(children), "loop"),
                       Frame(Head(children), <<>>, "find")>>

\* deleteCommentRecursively, after delete returned for the top frame: the call
\* returns to the loop of its caller, which goes to its next child or, after
\* the last one, on to delete its own id.
AfterDelete(stack) ==
  LET rest == Pop(stack)
  IN  IF rest = <<>> THEN <<>>
      ELSE IF Top(rest).todo = <<>>
      THEN Pop(rest) \o <<Frame(Top(rest).id, <<>>, "delete")>>
      ELSE Pop(rest) \o <<Frame(Top(rest).id, Tail(Top(rest).todo), "loop"),
                          Frame(Head(Top(rest).todo), <<>>, "find")>>

\* A broadcast for every record the cascade deleted.
DeletedEventsEach(root, removed) ==
  [i \in 1..Cardinality(removed) |->
     Event("deleteComment", [commentId |-> SortedSeq(removed)[i]])]

\* What deleteComment broadcasts when deleteCommentRecursively has returned.
DeletedEvents(root, removed) == <<Event("deleteComment", [commentId |-> root])>>

\* A catch block that only logs, as those of the other three handlers do.
DeleteErrorLogged == <<>>

\* What deleteComment broadcasts from its catch block.
DeleteErrorEvents == <<Event("error", [message |-> "Error deleting comment"])>>

-----------------------------------------------------------------------------
(* Handler-local state and the record of the last step *)

Idle == [kind |-> "idle"]

\* The slots are interchangeable: a likeComment handler takes the highest
\* free one, a deleteComment handler a free one of its own.
FreeSlot(s) == slots[s].kind = "idle"

HighestFreeSlot(s) == /\ FreeSlot(s)
                      /\ \A t \in Slots : t > s => ~FreeSlot(t)

\* op: the handler or route; id: the id it was about; outcome: how the step
\* ended; status: the HTTP status of a route; input: the strings of a create
\* request; slot: the slot of the handler the step suspended. For a step of a
\* likeComment or deleteComment handler: alone (no step of anything else has
\* run since the handler's first store call) and, for deleteComment, snap
\* (the store at its first store call, kept while alone) and removed (the ids
\* it deleted, when it ended). streak: the toggles that ran one right after
\* the other, each alone, on one id. over: for the update call of a
\* likeComment handler, the likes its findUnique had read and then the likes
\* the record held when the update arrived (none when the record was gone).
NoLast == [op |-> "none", id |-> 0, outcome |-> "none", status |-> 0,
           input |-> <<>>, slot |-> 0, alone |-> FALSE, snap |-> <<>>,
           removed |-> {}, streak |-> <<>>, over |-> <<>>]

\* The last step was a step of the handler in slot s, which has run alone so
\* far.
AloneSoFar(s) == last.slot = s /\ last.alone

Ended(op, id, outcome) == [NoLast EXCEPT !.op = op, !.id = id, !.outcome = outcome]

Replied(op, id, outcome, status) == [Ended(op, id, outcome) EXCEPT !.status = status]

Init == /\ store = <<>>
        /\ nextId = 1
        /\ slots = [s \in Slots |-> Idle]
        /\ emitted = <<>>
        /\ last = NoLast
        /\ connected = {}
        /\ owner = [s \in Slots |-> NoSession]
        /\ requester = NoSession
        /\ inbox = [c \in Sessions |-> <<>>]

-----------------------------------------------------------------------------
(* The single-call handlers and routes *)

\* socket.on("comment"): create, then broadcast the saved record.
SocketComment(nickname, text, parentId, fail) ==
  LET in == [nickname |-> nickname, text |-> text]
  IN
  /\ UNCHANGED slots
  /\ IF fail
     THEN /\ UNCHANGED <<store, nextId>>
          /\ emitted' = <<>>
          /\ last' = [Ended("comment", 0, "storageError") EXCEPT !.input = in]
     ELSE /\ nextId <= MaxId
          /\ store' = Put(store, nextId, CommentData(nickname, text, parentId))
          /\ nextId' = nextId + 1
          /\ emitted' = <<Event("newComment", Row(store', nextId))>>
          /\ last' = [Ended("comment", nextId, "ok") EXCEPT !.input = in]

\* app.post("/comments"): validate, create, reply; nothing is broadcast.
HttpPost(nickname, text, parentId, fail) ==
  LET in == [nickname |-> nickname, text |-> text]
  IN
  /\ UNCHANGED slots
  /\ emitted' = <<>>
  /\ IF ~PostValid(nickname, text)
     THEN /\ ~fail
          /\ UNCHANGED <<store, nextId>>
          /\ last' = [Replied("POST", 0, "validation", 400) EXCEPT !.input = in]
     ELSE IF fail
     THEN /\ UNCHANGED <<store, nextId>>
          /\ last' = [Replied("POST", 0, "storageError", 500) EXCEPT !.input = in]
     ELSE /\ nextId <= MaxId
          /\ store' = Put(store, nextId, PostData(nickname, text, parentId))
          /\ nextId' = nextId + 1
          /\ last' = [Replied("POST", nextId, "ok", 201) EXCEPT !.input = in]

\* socket.on("updateComment"): update, then broadcast the updated record.
SocketUpdate(id, nickname, text, hasEdited, edited, fail) ==
  LET r == PrismaUpdate(store, id, UpdateData(nickname, text, hasEdited, edited))
  IN
  /\ UNCHANGED slots
  /\ UNCHANGED nextId
  /\ IF fail
     THEN /\ UNCHANGED store
          /\ emitted' = <<>>
          /\ last' = Ended("updateComment", id, "storageError")
     ELSE /\ store' = r.store
          /\ emitted' = IF r.ok THEN <<Event("updateComment", Row(store', id))>> ELSE <<>>
          /\ last' = Ended("updateComment", id, IF r.ok THEN "ok" ELSE "notFound")

\* app.put("/comments"): validate, updateMany, reply by its count.
HttpPut(id, text, fail) ==
  LET r == PrismaUpdateMany(store, id, PutData(text))
  IN
  /\ UNCHANGED slots
  /\ UNCHANGED nextId
  /\ emitted' = <<>>
  /\ IF text = ""
     THEN /\ ~fail
          /\ UNCHANGED store
          /\ last' = Replied("PUT", id, "validation", 400)
     ELSE IF fail
     THEN /\ UNCHANGED store
          /\ last' = Replied("PUT", id, "storageError", 500)
     ELSE /\ store' = r.store
          /\ last' = IF r.count = 0 THEN Replied("PUT", id, "notFound", 404)
                     ELSE Replied("PUT", id, "ok", 200)

\* app.delete("/comments"): deleteMany of the one id, reply by its count.
HttpDelete(id, fail) ==
  LET r == PrismaDeleteMany(store, id)
  IN
  /\ UNCHANGED slots
  /\ UNCHANGED nextId
  /\ emitted' = <<>>
  /\ IF fail
     THEN /\ UNCHANGED store
          /\ last' = Replied("DELETE", id, "storageError", 500)
     ELSE /\ store' = r.store
          /\ last' = IF r.count = 0 THEN Replied("DELETE", id, "notFound", 404)
                     ELSE Replied("DELETE", id, "ok", 200)

-----------------------------------------------------------------------------
(* socket.on("likeComment"): findUnique, then update, then broadcast *)

LikeSlot(id, likes) == [kind |-> "like", id |-> id, read |-> likes]

\* The toggles that ran one right after the other, each alone, on one id: the
\* last two of them.
Extend(streak, e) ==
  IF streak # <<>> /\ streak[Len(streak)].id = e.id
  THEN <<streak[Len(streak)], e>>
  ELSE <<e>>

\* The findUnique call and the check of its result.
LikeRead(s, id, fail) ==
  /\ HighestFreeSlot(s)
  /\ UNCHANGED <<store, nextId>>
  /\ emitted' = <<>>
  /\ IF fail
     THEN /\ UNCHANGED slots
          /\ last' = Ended("likeComment", id, "storageError")
     ELSE IF ~Exists(store, id)
     THEN /\ UNCHANGED slots
          /\ last' = Ended("likeComment", id, "notFound")
     ELSE /\ slots' = [slots EXCEPT ![s] = LikeSlot(id, store[id].likes)]
          /\ last' = [Ended("likeRead", id, "pending") EXCEPT
                        !.slot = s, !.alone = TRUE,
                        !.streak = IF last.op = "likeComment" /\ last.outcome = "ok"
                                   THEN last.streak ELSE <<>>]

\* The update call and the broadcast of its result.
LikeWrite(s, fail) ==
  LET me == slots[s]
      r  == LikeUpdate(store, me.id, UpdatedLikes(me.read))
      over == IF Exists(store, me.id) THEN <<me.read, store[me.id].likes>>
              ELSE <<me.read>>
  IN
  /\ me.kind = "like"
  /\ UNCHANGED nextId
  /\ slots' = [slots EXCEPT ![s] = Idle]
  /\ IF fail
     THEN /\ UNCHANGED store
          /\ emitted' = <<>>
          /\ last' = Ended("likeComment", me.id, "storageError")
     ELSE /\ store' = r.store
          /\ emitted' = IF r.ok
                        THEN <<Event("likeComment", [commentId |-> me.id,
                                                     likes |-> store'[me.id].likes])>>
                        ELSE <<>>
          /\ last' = IF r.ok
                     THEN [Ended("likeComment", me.id, "ok") EXCEPT
                             !.alone = AloneSoFar(s),
                             !.over = over,
                             !.streak = IF AloneSoFar(s)
                                        THEN Extend(last.streak,
                                                    [id |-> me.id, from |-> me.read,
                                                     to |-> store'[me.id].likes])
                                        ELSE <<>>]
                     ELSE [Ended("likeComment", me.id, "notFound") EXCEPT
                             !.over = over]

-----------------------------------------------------------------------------
(* socket.on("deleteComment"): deleteCommentRecursively, then broadcast *)

\* removed: the ids the handler has deleted; lookups: its findMany calls that
\* returned, in order.
DeleteSlot(root, stack) == [kind |-> "delete", id |-> root, stack |-> stack,
                           removed |-> {}, lookups |-> <<>>]

\* A findMany call that returned: the id it was for and the children listed.
Lookup(id, children) == [id |-> id, children |-> children]

\* A step of the deleteComment handler in slot s that suspends it again.
DeleteStep(s, op, id, alone, snap) ==
  [Ended(op, id, "pending") EXCEPT
     !.slot = s, !.alone = alone, !.snap = IF alone THEN snap ELSE <<>>]

\* How a deleteComment ended, for the record of the last step.
DeleteEnded(root, outcome, removed, alone, snap) ==
  [Ended("deleteComment", root, outcome) EXCEPT
     !.alone = alone, !.snap = IF alone THEN snap ELSE <<>>, !.removed = removed]

\* The handler's first store call: findMany for the requested id.
DelStart(s, id, fail) ==
  /\ FreeSlot(s)
  /\ UNCHANGED <<store, nextId>>
  /\ IF fail
     THEN /\ UNCHANGED slots
          /\ emitted' = DeleteErrorEvents
          /\ last' = DeleteEnded(id, "storageError", {}, TRUE, store)
     ELSE /\ slots' = [slots EXCEPT ![s] =
                         [DeleteSlot(id, AfterFind(<<Frame(id, <<>>, "find")>>,
                                                   FindChildren(store, id)))
                            EXCEPT !.lookups = <<Lookup(id, FindChildren(store, id))>>]]
          /\ emitted' = <<>>
          /\ last' = DeleteStep(s, "deleteFind", id, TRUE, store)

\* findMany for a child the loop has called deleteCommentRecursively for.
DelFind(s, fail) ==
  LET me == slots[s]
      children == FindChildren(store, Top(me.stack).id)
  IN
  /\ me.kind = "delete"
  /\ Top(me.stack).pc = "find"
  /\ UNCHANGED <<store, nextId>>
  /\ IF fail
     THEN /\ slots' = [slots EXCEPT ![s] = Idle]
          /\ emitted' = DeleteErrorEvents
          /\ last' = DeleteEnded(me.id, "storageError", me.removed,
                                 AloneSoFar(s), last.snap)
     ELSE /\ children # <<>> => Len(me.stack) < MaxDepth
          /\ slots' = [slots EXCEPT
                         ![s].stack = AfterFind(me.stack, children),
                         ![s].lookups = Append(@, Lookup(Top(me.stack).id, children))]
          /\ emitted' = <<>>
          /\ last' = DeleteStep(s, "deleteFind", Top(me.stack).id,
                                AloneSoFar(s), last.snap)

\* The delete of the top frame's id inside a transaction: a failing call
\* restores the store the handler started from.
DelDeleteInTransaction(s, fail) ==
  LET me == slots[s]
      id == Top(me.stack).id
      r == PrismaDelete(store, id)
      stack == AfterDelete(me.stack)
      removed == me.removed \cup {id}
  IN
  /\ me.kind = "delete"
  /\ Top(me.stack).pc = "delete"
  /\ UNCHANGED nextId
  /\ IF fail \/ ~r.ok
     THEN /\ store' = IF AloneSoFar(s) THEN last.snap ELSE store
          /\ slots' = [slots EXCEPT ![s] = Idle]
          /\ emitted' = DeleteErrorEvents
          /\ last' = DeleteEnded(me.id, IF fail THEN "storageError" ELSE "notFound",
                                 me.removed, AloneSoFar(s), last.snap)
     ELSE /\ store' = r.store
          /\ IF stack = <<>>
             THEN /\ slots' = [slots EXCEPT ![s] = Idle]
                  /\ emitted' = DeletedEvents(me.id, removed)
                  /\ last' = DeleteEnded(me.id, "ok", removed, AloneSoFar(s), last.snap)
             ELSE /\ slots' = [slots EXCEPT ![s].stack = stack, ![s].removed = removed]
                  /\ emitted' = <<>>
                  /\ last' = DeleteStep(s, "deleteStep", id, AloneSoFar(s), last.snap)

\* delete of the top frame's id: it throws when the record is gone, and the
\* handler's catch block ends the whole cascade; after the outermost call has
\* returned the handler broadcasts the requested id.
DelDelete(s, fail) ==
  LET me == slots[s]
      id == Top(me.stack).id
      r == PrismaDelete(store, id)
      stack == AfterDelete(me.stack)
      removed == me.removed \cup {id}
  IN
  /\ me.kind = "delete"
  /\ Top(me.stack).pc = "delete"
  /\ UNCHANGED nextId
  /\ IF fail \/ ~r.ok
     THEN /\ UNCHANGED store
          /\ slots' = [slots EXCEPT ![s] = Idle]
          /\ emitted' = DeleteErrorEvents
          /\ last' = DeleteEnded(me.id, IF fail THEN "storageError" ELSE "notFound",
                                 me.removed, AloneSoFar(s), last.snap)
     ELSE /\ store' = r.store
          /\ IF stack = <<>>
             THEN /\ slots' = [slots EXCEPT ![s] = Idle]
                  /\ emitted' = DeletedEvents(me.id, removed)
                  /\ last' = DeleteEnded(me.id, "ok", removed, AloneSoFar(s), last.snap)
             ELSE /\ slots' = [slots EXCEPT ![s].stack = stack, ![s].removed = removed]
                  /\ emitted' = <<>>
                  /\ last' = DeleteStep(s, "deleteStep", id, AloneSoFar(s), last.snap)

-----------------------------------------------------------------------------

(* Specifications.  Each one takes the handlers it is about and draws their
   inputs from the sets named here; all of them start from the empty store. *)

\* Where the sessions are not followed: nothing connects.
NoHub == UNCHANGED hub

\* The comment tree and the cascade: comments under any parent, the REST
\* delete of one record, and deleteComment handlers.
NextCascade ==
  \/ \E p \in ParentIds, fail \in BOOLEAN :
       SocketComment("a", "a", p, fail) /\ NoHub
  \/ \E p \in ParentIds : HttpPost("a", "a", p, FALSE) /\ NoHub
  \/ \E id \in Ids, fail \in BOOLEAN : HttpDelete(id, fail) /\ NoHub
  \/ \E s \in CascadeSlots, id \in Ids, fail \in BOOLEAN : DelStart(s, id, fail) /\ NoHub
  \/ \E s \in CascadeSlots, fail \in BOOLEAN : DelFind(s, fail) /\ NoHub
  \/ \E s \in CascadeSlots, fail \in BOOLEAN : DelDelete(s, fail) /\ NoHub

SpecCascade == Init /\ [][NextCascade]_vars

\* The like counter: top-level comments, likeComment handlers racing with
\* each other, with updates and with the REST delete.  (A likeComment
\* handler racing with a deleteComment handler is followed in NextHub.)
NextLikes ==
  \/ nextId <= MaxFlat /\ SocketComment("a", "a", NoParent, FALSE) /\ NoHub
  \/ nextId <= MaxFlat /\ HttpPost("a", "a", NoParent, FALSE) /\ NoHub
  \/ \E id \in Ids : SocketUpdate(id, "a", "a", TRUE, TRUE, FALSE) /\ NoHub
  \/ \E id \in Ids : HttpDelete(id, FALSE) /\ NoHub
  \/ \E s \in Slots, id \in Ids, fail \in BOOLEAN : LikeRead(s, id, fail) /\ NoHub
  \/ \E s \in Slots, fail \in BOOLEAN : LikeWrite(s, fail) /\ NoHub

SpecLikes == Init /\ [][NextLikes]_vars

\* The contents of a comment: every create and update payload, on top-level
\* comments.
NextContent ==
  \/ nextId <= MaxFlat /\ \E n \in Strings, t \in Strings, fail \in BOOLEAN :
                             SocketComment(n, t, NoParent, fail) /\ NoHub
  \/ nextId <= MaxFlat /\ \E n \in Strings, t \in Strings, fail \in BOOLEAN :
                             HttpPost(n, t, NoParent, fail) /\ NoHub
  \/ \E id \in Ids, n \in Strings, t \in Strings, h \in BOOLEAN, e \in BOOLEAN :
       SocketUpdate(id, n, t, h, e, FALSE) /\ NoHub
  \/ \E id \in Ids : SocketUpdate(id, "a", "a", TRUE, TRUE, TRUE) /\ NoHub
  \/ \E id \in Ids, t \in Strings, fail \in BOOLEAN : HttpPut(id, t, fail) /\ NoHub
  \/ \E id \in Ids, fail \in BOOLEAN : HttpDelete(id, fail) /\ NoHub

SpecContent == Init /\ [][NextContent]_vars

\* The cascade on a forest: every comment is created under no parent or
\* under an id assigned before its own, so no parentId chain comes back to
\* where it started.  Replies and REST deletes come in between the store
\* calls of a deleteComment handler.
NextForest ==
  \/ \E p \in ParentIds : p < nextId /\ SocketComment("a", "a", p, FALSE) /\ NoHub
  \/ \E id \in Ids : HttpDelete(id, FALSE) /\ NoHub
  \/ \E s \in CascadeSlots, id \in Ids, fail \in BOOLEAN : DelStart(s, id, fail) /\ NoHub
  \/ \E s \in CascadeSlots, fail \in BOOLEAN : DelFind(s, fail) /\ NoHub
  \/ \E s \in CascadeSlots, fail \in BOOLEAN : DelDelete(s, fail) /\ NoHub

\* The store answers the call a deleteComment handler is waiting for.
CascadeAnswered(s) == (DelFind(s, FALSE) \/ DelDelete(s, FALSE)) /\ NoHub

\* Every store call returns: a handler that waits for the store goes on.
SpecForest == /\ Init
              /\ [][NextForest]_vars
              /\ \A s \in CascadeSlots : WF_vars(CascadeAnswered(s))

(* The sessions.  io.on("connection") registers the four handlers on every
   socket; a handler runs for the socket its message came in on and goes on
   running when that socket disconnects.  io.emit hands an event to every
   socket connected when it is called, the one of the requester included. *)

NoInbox == [c \in Sessions |-> <<>>]

\* socket.broadcast.emit: every connected socket but the requester's.
SocketBroadcastEmit(conn, by, events) ==
  [c \in Sessions |-> IF c \in conn \ {by} THEN events ELSE <<>>]

\* io.emit(event, payload) for each of events, to the sockets in conn.
IoEmit(conn, by, events) ==
  [c \in Sessions |-> IF c \in conn THEN events ELSE <<>>]

Connect(c) ==
  /\ c \notin connected
  /\ connected' = connected \cup {c}
  /\ emitted' = <<>>
  /\ last' = NoLast
  /\ requester' = NoSession
  /\ inbox' = NoInbox
  /\ UNCHANGED <<store, nextId, slots, owner>>

\* The handlers c started and that are waiting for the store stay in flight.
Disconnect(c) ==
  /\ c \in connected
  /\ connected' = connected \ {c}
  /\ emitted' = <<>>
  /\ last' = NoLast
  /\ requester' = NoSession
  /\ inbox' = NoInbox
  /\ UNCHANGED <<store, nextId, slots, owner>>

\* The step just taken was a whole handler run for a message of c.
Sent(c) ==
  /\ c \in connected
  /\ requester' = c
  /\ inbox' = IoEmit(connected, c, emitted')
  /\ UNCHANGED <<connected, owner>>

\* The step just taken was the first of a handler in slot s, for a message of c.
Started(c, s) ==
  /\ c \in connected
  /\ requester' = c
  /\ owner' = [owner EXCEPT ![s] = IF slots'[s] = Idle THEN NoSession ELSE c]
  /\ inbox' = IoEmit(connected, c, emitted')
  /\ UNCHANGED connected

\* The step just taken was a later one of the handler in slot s.
Resumed(s) ==
  /\ requester' = owner[s]
  /\ owner' = [owner EXCEPT ![s] = IF slots'[s] = Idle THEN NoSession ELSE @]
  /\ inbox' = IoEmit(connected, owner[s], emitted')
  /\ UNCHANGED connected

\* The step just taken was a REST request: no socket is its requester.
Rest ==
  /\ requester' = NoSession
  /\ inbox' = IoEmit(connected, NoSession, emitted')
  /\ UNCHANGED <<connected, owner>>

SharedIds == 1..MaxShared

\* One likeComment handler and one deleteComment handler at a time.
SharedLikeSlots == {MaxInflight}

\* Sessions coming and going while the four socket handlers and the REST
\* delete work on top-level comments, every store call failing or not.
NextHub ==
  \/ \E c \in Sessions : Connect(c)
  \/ \E c \in Sessions : Disconnect(c)
  \/ \E c \in Sessions, fail \in BOOLEAN :
       nextId <= MaxShared /\ SocketComment("a", "a", NoParent, fail) /\ Sent(c)
  \/ \E c \in Sessions, id \in SharedIds, fail \in BOOLEAN :
       SocketUpdate(id, "a", "a", TRUE, TRUE, fail) /\ Sent(c)
  \/ \E id \in SharedIds : HttpDelete(id, FALSE) /\ Rest
  \/ \E c \in Sessions, s \in SharedLikeSlots, id \in SharedIds, fail \in BOOLEAN :
       LikeRead(s, id, fail) /\ Started(c, s)
  \/ \E s \in SharedLikeSlots, fail \in BOOLEAN : LikeWrite(s, fail) /\ Resumed(s)
  \/ \E c \in Sessions, s \in CascadeSlots, id \in SharedIds, fail \in BOOLEAN :
       DelStart(s, id, fail) /\ Started(c, s)
  \/ \E s \in CascadeSlots, fail \in BOOLEAN : DelDelete(s, fail) /\ Resumed(s)

SpecHub == Init /\ [][NextHub]_vars

-----------------------------------------------------------------------------
(* The cascade: C1, C4, C5 (under SpecCascade) *)

\* d is below root in st: its chain of parentId, through records of st,
\* reaches root in at most n steps.
RECURSIVE Below(_, _, _, _)
Below(st, d, root, n) ==
  /\ n > 0
  /\ d \in DOMAIN st
  /\ \/ st[d].parentId = root
     \/ Below(st, st[d].parentId, root, n - 1)

Subtree(st, root) == {root} \cup {d \in DOMAIN st : Below(st, d, root, MaxId)}

Without(st, gone) == [i \in DOMAIN st \ gone |-> st[i]]

\* A deleteComment handler ended in the last step, having run alone from its
\* first store call on, and no store call of it failed.
CascadeRanAlone == /\ last.op = "deleteComment"
                   /\ last.alone
                   /\ last.outcome # "storageError"

\* C1: when deleteComment(root) has run to completion, alone and without a
\* store failure, the store is the store it started from without root and
\* every descendant of root: all of these are gone, and every other record is
\* there as it was.
C1_CascadeRemovesSubtree ==
  (CascadeRanAlone /\ last.outcome = "ok")
    => store = Without(last.snap, Subtree(last.snap, last.id))

\* A cascade that ran alone removed a root and a descendant and left a record
\* outside the subtree.
C1_Witness ==
  /\ CascadeRanAlone /\ last.outcome = "ok"
  /\ Cardinality(last.removed) >= 2
  /\ store # <<>>

\* The requested id had no record and no children when the handler started.
AbsentLeaf == /\ ~Exists(last.snap, last.id)
              /\ FindChildren(last.snap, last.id) = <<>>

NoErrorEvent == \A i \in 1..Len(emitted) : emitted[i].type # "error"

C5_OneDeletedEvent ==
  /\ (last.op = "deleteComment" /\ last.outcome = "ok")
       => emitted = <<Event("deleteComment", [commentId |-> last.id])>>
  /\ last.op \in {"deleteFind", "deleteStep"} => emitted = <<>>

\* A deleteComment that removed descendants with the root succeeded.
C5_Witness == /\ last.op = "deleteComment" /\ last.outcome = "ok"
              /\ Cardinality(last.removed) >= 3

-----------------------------------------------------------------------------
(* The like counter: C2, C3, C9 (under SpecLikes) *)

\* C2: in every reachable state every stored comment has likes >= 0, whatever
\* the interleaving of creates, toggles and deletes, concurrent toggles on one
\* id included.
C2_LikesNotNegative == \A id \in DOMAIN store : store[id].likes >= 0

\* A toggle that did not run alone (another handler's step came between its
\* read and its write) took the like away again.
C2_Witness == /\ last.op = "likeComment" /\ last.outcome = "ok"
              /\ ~last.alone
              /\ store[last.id].likes = 0

\* C3: two toggles on one id, run one right after the other and each alone,
\* leave likes at the value it had before the first.
C3_ToggleTwiceRestores ==
  Len(last.streak) = 2
    => /\ last.streak[2].to = last.streak[1].from
       /\ store[last.streak[1].id].likes = last.streak[1].from

\* Two such toggles have run, on a comment that was liked before them.
C3_Witness == /\ Len(last.streak) = 2
              /\ last.streak[1].from = 1
              /\ last.streak[2].from = last.streak[1].to

\* C9: a likeComment for an id that has no record, at its findUnique or, the
\* record deleted in between, at its update, broadcasts nothing and leaves
\* the store as it is.
C9_LikeOfAbsentId ==
  [][(last'.op = "likeComment" /\ ~Exists(store, last'.id))
       => (store' = store /\ emitted' = <<>>)]_vars

\* A likeComment found no record for its id, with other records in the store.
C9_Witness == /\ last.op = "likeComment" /\ last.outcome = "notFound"
              /\ store # <<>>

-----------------------------------------------------------------------------
(* The contents of a comment: C6, C7, C8, C10 (under SpecContent) *)

\* C6, as claimed: after every update that succeeds, by the socket handler or
\* by PUT, the stored record has edited = TRUE, and so has the record in the
\* updateComment event.
C6_EditSetsEdited ==
  (last.op \in {"updateComment", "PUT"} /\ last.outcome = "ok")
    => /\ store[last.id].edited = TRUE
       /\ \A i \in 1..Len(emitted) : emitted[i].payload.edited = TRUE

\* C7: a record a create has just stored, by the socket handler or by POST,
\* has likes = 0 and edited = FALSE, and so has the record of every newComment
\* event.
C7_CreatedFresh ==
  /\ (last.op \in {"comment", "POST"} /\ last.outcome = "ok")
       => (store[last.id].likes = 0 /\ store[last.id].edited = FALSE)
  /\ \A i \in 1..Len(emitted) :
       emitted[i].type = "newComment"
         => (emitted[i].payload.likes = 0 /\ emitted[i].payload.edited = FALSE)

\* The socket handler has stored and broadcast a new comment, while a comment
\* edited before is in the store.
C7_Witness == /\ last.op = "comment" /\ last.outcome = "ok"
              /\ Len(emitted) = 1 /\ emitted[1].type = "newComment"
              /\ \E id \in DOMAIN store : store[id].edited

EmptyInput == last.input.nickname = "" \/ last.input.text = ""

\* C8, as claimed: a create whose nickname or text is empty is rejected as a
\* validation failure and broadcasts nothing, and no stored comment has an
\* empty nickname or text.
C8_EmptyRejected ==
  /\ (last.op \in {"comment", "POST"} /\ EmptyInput)
       => (last.outcome = "validation" /\ emitted = <<>>)
  /\ \A id \in DOMAIN store : store[id].nickname # "" /\ store[id].text # ""

\* C10: an update, by the socket handler or by PUT, of an id that has no
\* record creates no record, changes none and broadcasts nothing.
C10_EditOfAbsentId ==
  [][(last'.op \in {"updateComment", "PUT"} /\ ~Exists(store, last'.id))
       => (store' = store /\ emitted' = <<>>)]_vars

\* The socket handler's update found no record, with other records in the
\* store.
C10_Witness == /\ last.op = "updateComment" /\ last.outcome = "notFound"
               /\ store # <<>>


-----------------------------------------------------------------------------
(* Two toggles racing on one comment: C12 (under SpecLikes) *)

\* A likeComment handler that read likes 0 and whose update found the
\* record at likes 1: another toggle that had read 0 too wrote in between.
LostUpdate ==
  /\ last.op = "likeComment"
  /\ last.outcome = "ok"
  /\ last.over = <<0, 1>>

\* C12: two toggles on one id that both read likes 0 both write 1: the
\* second write finds the 1 of the first and stores 1 again, the stored
\* likes end at 1 instead of back at 0, and the second broadcast carries
\* likes = 1 like the first.
C12_LostUpdate ==
  LostUpdate =>
    /\ Exists(store, last.id)
    /\ store[last.id].likes = 1
    /\ emitted = <<Event("likeComment", [commentId |-> last.id, likes |-> 1])>>

\* The second of two such toggles has written.
C12_Witness ==
  /\ LostUpdate
  /\ ~last.alone
  /\ store[last.id].likes = 1


-----------------------------------------------------------------------------
(* The cascade when a store call fails: C13 (under SpecCascade) *)

\* A store call of a deleteComment handler failed in the last step.
CascadeFailed == /\ last.op = "deleteComment"
                 /\ last.outcome = "storageError"

\* C13: when a findMany or delete call of a cascade fails, the handler is
\* over and deletes nothing more; where nothing else ran in between, the
\* store is the store it started from without the descendants it had
\* deleted before (they are not restored), and everything it had not
\* reached, the requested root included, is still there.
C13_FailureStopsCascade ==
  CascadeFailed =>
    /\ \A s \in CascadeSlots : slots[s] = Idle
    /\ last.alone =>
         /\ store = Without(last.snap, last.removed)
         /\ last.removed \subseteq Subtree(last.snap, last.id) \ {last.id}
         /\ Exists(last.snap, last.id) => Exists(store, last.id)

\* A cascade that ran alone failed after it had deleted a descendant, with
\* the root and another descendant still there.
C13_Witness ==
  /\ CascadeFailed
  /\ last.alone
  /\ last.removed # {}
  /\ Exists(store, last.id)
  /\ \E d \in DOMAIN store : Below(store, d, last.id, MaxId)


-----------------------------------------------------------------------------
(* The shape of the comment tree: C15 (under SpecCascade) *)

\* C15: no stored comment is its own ancestor: following parentId through
\* the records that exist never leads back to the record it started from.
C15_ParentsAcyclic ==
  \A d \in DOMAIN store : ~Below(store, d, d, MaxId)


-----------------------------------------------------------------------------
(* The cascade comes to an end: C16 (under SpecForest) *)

\* C16: on a forest, a deleteComment handler that is waiting for the store
\* eventually ends, and ends by broadcasting its deleteComment event or its
\* error event, whatever replies and deletes come in between.
C16_CascadeEnds ==
  \A s \in CascadeSlots :
    (slots[s].kind = "delete") ~>
      (/\ slots[s] = Idle
       /\ last.op = "deleteComment"
       /\ emitted \in {DeletedEvents(last.id, last.removed), DeleteErrorEvents})

\* A cascade ended with its deleteComment event after it had deleted as
\* many records as there are ids and something else had run in between.
C16_Witness ==
  /\ last.op = "deleteComment"
  /\ last.outcome = "ok"
  /\ ~last.alone
  /\ Cardinality(last.removed) = MaxId


-----------------------------------------------------------------------------
(* The order of the cascade: C17 (under SpecCascade) *)

\* Every id deleted had all the children its findMany listed deleted before.
PostOrder(lookups, removed) ==
  \A i \in DOMAIN lookups :
    lookups[i].id \in removed =>
      \A j \in DOMAIN lookups[i].children : lookups[i].children[j] \in removed

\* No id had findMany called for it twice.
VisitedOnce(lookups) ==
  \A i \in DOMAIN lookups, j \in DOMAIN lookups :
    lookups[i].id = lookups[j].id => i = j

\* The ids deleted are the ids visited: the requested one and every child
\* listed.
AllVisitedDeleted(root, lookups, removed) ==
  /\ removed = {lookups[i].id : i \in DOMAIN lookups}
  /\ removed = {root} \cup UNION {{lookups[i].children[j] :
                                       j \in DOMAIN lookups[i].children} :
                                     i \in DOMAIN lookups}

\* The deleteComment handler in slot s ends in this step.
CascadeEnds(s) == /\ slots[s].kind = "delete"
                  /\ slots'[s] = Idle
                  /\ last'.op = "deleteComment"

\* C17: within one deleteComment, a record is deleted only after every child
\* listed for it has been deleted, no id is visited twice, and when the
\* handler broadcasts its deleteComment event every id it visited, the root
\* and each child listed, has been deleted, once.
C17_PostOrderOnce ==
  [][\A s \in CascadeSlots :
       /\ slots'[s].kind = "delete" =>
            /\ PostOrder(slots'[s].lookups, slots'[s].removed)
            /\ VisitedOnce(slots'[s].lookups)
       /\ CascadeEnds(s) =>
            /\ PostOrder(slots[s].lookups, last'.removed)
            /\ last'.outcome = "ok" =>
                 AllVisitedDeleted(last'.id, slots[s].lookups, last'.removed)]_vars

-----------------------------------------------------------------------------
(* Replies created while a cascade runs: C18 (under SpecCascade) *)

\* No record left in the store names a record the cascade removed as its
\* parent; then no parentId chain of a record left leads to one of them.
NoneLeftBelowRemoved ==
  \A d \in DOMAIN store : store[d].parentId \notin last.removed

\* C18, as claimed: when deleteComment broadcasts its deleteComment event, no
\* record left in the store has a parentId chain into the records the
\* cascade removed, also when comments are created while it runs.
C18_NoOrphans ==
  (last.op = "deleteComment" /\ last.outcome = "ok") => NoneLeftBelowRemoved

\* C18, amended: when a deleteComment that ran with nothing else in between
\* broadcasts its deleteComment event, no record left in the store has a
\* parentId chain into the records the cascade removed.
C18_NoOrphansWhenAlone ==
  (CascadeRanAlone /\ last.outcome = "ok") => NoneLeftBelowRemoved

\* A cascade that ran alone removed the requested record and a reply to it
\* and left another record in the store.
C18_Witness ==
  /\ CascadeRanAlone /\ last.outcome = "ok"
  /\ \E d \in last.removed : d # last.id /\ last.snap[d].parentId = last.id
  /\ \E d \in DOMAIN store : store[d].parentId \notin last.removed


-----------------------------------------------------------------------------
(* Who receives an event: C11, C14 (under SpecHub) *)

\* C11: every event a step broadcasts is received once by every session
\* connected when it is emitted, the requester's included, and by no session
\* that is not connected then: one that had left before, or one that
\* connects later, never receives it.
C11_DeliveredToConnected ==
  /\ \A c \in Sessions :
       inbox[c] = IF c \in connected THEN emitted ELSE <<>>
  /\ requester \in connected => inbox[requester] = emitted

\* A handler broadcast an event while its requester and another session
\* were connected.
C11_Witness ==
  /\ emitted # <<>>
  /\ requester # NoSession
  /\ requester \in connected
  /\ connected # {requester}

\* A handler ended without doing what it was asked: a store call failed, or
\* the record it was to change was not there.
HandlerFailed == last.outcome \in {"storageError", "notFound"}

\* C14: a deleteComment that failed broadcast one error event, with the
\* fixed message, to every connected session and no deleteComment event; a
\* comment, updateComment or likeComment handler that failed broadcast
\* nothing to anyone.
C14_FailureEvents ==
  /\ (last.op = "deleteComment" /\ HandlerFailed) =>
       /\ emitted = <<Event("error", [message |-> "Error deleting comment"])>>
       /\ \A c \in connected : inbox[c] = emitted
  /\ (last.op \in {"comment", "updateComment", "likeComment"} /\ HandlerFailed) =>
       /\ emitted = <<>>
       /\ inbox = NoInbox

\* A deleteComment failed on a store call while its requester and another
\* session were connected.
C14_Witness ==
  /\ last.op = "deleteComment"
  /\ last.outcome = "storageError"
  /\ requester \in connected
  /\ connected # {requester}
  /\ Len(inbox[requester]) = 1

-----------------------------------------------------------------------------
(* Writes that arrive after the delete: C19 (under SpecHub) *)

\* The id was assigned and its record has been removed since.
Removed(id) == id < nextId /\ ~Exists(store, id)

\* C19: a removed comment never comes back. No step puts a record under a
\* removed id again, and an updateComment or likeComment handler whose
\* update arrives after the removal fails: the store stays as it is and no
\* session receives an event.
C19_NeverResurrected ==
  [][/\ \A id \in Ids : Removed(id) => ~Exists(store', id)
     /\ (last'.op \in {"updateComment", "likeComment"} /\ Removed(last'.id)) =>
          /\ last'.outcome # "ok"
          /\ store' = store
          /\ emitted' = <<>>
          /\ inbox' = NoInbox]_vars

\* The update call of a likeComment handler found that the record its
\* findUnique had read was removed in between.
C19_Witness ==
  /\ last.op = "likeComment"
  /\ last.outcome = "notFound"
  /\ Len(last.over) = 1
  /\ Removed(last.id)

-----------------------------------------------------------------------------
(* The range of likes: C20 (under SpecLikes) *)

\* C20: every stored comment has likes 0 or 1, whatever creates, toggles,
\* updates and deletes have run and however they interleaved.
C20_LikesZeroOrOne ==
  \A id \in DOMAIN store : store[id].likes \in {0, 1}

\* Two comments, one liked and one not, after a toggle that did not run
\* alone.
C20_Witness ==
  /\ last.op = "likeComment" /\ last.outcome = "ok" /\ ~last.alone
  /\ \E i \in DOMAIN store, j \in DOMAIN store :
       store[i].likes = 1 /\ store[j].likes = 0

=============================================================================
